---- MODULE Spec2Model ----
(***************************************************************************)
(* aggregatelogs: merge of rotated log fragments (src/main.go).            *)
(*                                                                         *)
(* MainRoutine scans a directory, groups the fragments by base name,       *)
(* merges every group into one or more output files (MergeLogList /        *)
(* MergeLogChunk, one goroutine per fragment, ordered by a shared counter) *)
(* and optionally deletes the fragments (DeleteLogList).  With filters,     *)
(* LoadDataToWrite keeps of every line what the filters match; a filter    *)
(* that does not compile makes MainRoutine panic, which main recovers.     *)
(*                                                                         *)
(* File names are sequences of one-character strings, file contents are    *)
(* sequences of small integers (bytes).                                    *)
(***************************************************************************)
EXTENDS Integers, Sequences, FiniteSets, TLC

(***************************************************************************)
(* Bounds of the model.                                                    *)
(***************************************************************************)
\* fragments of the larger group in the scenarios with environment faults
MaxFragments == 5
\* fragments of the single group in the fault-free chunking scenarios
MaxPlanFragments == 11
\* largest requested --max-chunks in the chunking scenarios
MaxPlanChunks == 4
\* bytes of the fragment in the filter scenarios
MaxTextLen == 3
\* dot-separated tokens of the file name in the naming scenarios
MaxTokens == 3

\* the nil *Options
NIL == [nil |-> TRUE]
NoFile == <<>>

(***************************************************************************)
(* Strings.                                                                *)
(***************************************************************************)
\* the characters used by the file names, in byte order
CharOrder == <<"+", "-", ".", "0", "1", "2", "3", "4", "5", "6", "7", "8", "9",
               "a", "b", "f", "g", "l", "o", "u">>

DigitChars == <<"0", "1", "2", "3", "4", "5", "6", "7", "8", "9">>

CharRank(c) == CHOOSE i \in 1..Len(CharOrder) : CharOrder[i] = c

IsDigit(c) == \E i \in 1..10 : DigitChars[i] = c

DigitVal(c) == (CHOOSE i \in 1..10 : DigitChars[i] = c) - 1

\* byte-wise comparison of two names (the order of filepath.Walk)
RECURSIVE LexLess(_, _)
LexLess(s, t) ==
  IF t = <<>> THEN FALSE
  ELSE IF s = <<>> THEN TRUE
  ELSE IF s[1] # t[1] THEN CharRank(s[1]) < CharRank(t[1])
  ELSE LexLess(Tail(s), Tail(t))

\* strings.Contains
HasPrefix(s, p) == Len(s) >= Len(p) /\ SubSeq(s, 1, Len(p)) = p

Contains(s, sub) ==
  \E i \in 1..(Len(s) + 1) : HasPrefix(SubSeq(s, i, Len(s)), sub)

\* strings.Split(s, sep) for a one-character separator
RECURSIVE SplitFrom(_, _, _)
SplitFrom(s, sep, cur) ==
  IF s = <<>> THEN <<cur>>
  ELSE IF s[1] = sep THEN <<cur>> \o SplitFrom(Tail(s), sep, <<>>)
  ELSE SplitFrom(Tail(s), sep, Append(cur, s[1]))

Split(s, sep) == SplitFrom(s, sep, <<>>)

\* strings.Join(parts, sep)
RECURSIVE Join(_, _)
Join(parts, sep) ==
  IF parts = <<>> THEN <<>>
  ELSE IF Len(parts) = 1 THEN parts[1]
  ELSE parts[1] \o <<sep>> \o Join(Tail(parts), sep)

\* strconv.FormatInt(n, 10) for n >= 0
RECURSIVE FormatInt(_)
FormatInt(n) ==
  IF n < 10 THEN <<DigitChars[n + 1]>>
  ELSE FormatInt(n \div 10) \o <<DigitChars[(n % 10) + 1]>>

\* strconv.Atoi: optional sign, then at least one digit
RECURSIVE DigitsVal(_, _)
DigitsVal(s, acc) ==
  IF s = <<>> THEN acc ELSE DigitsVal(Tail(s), 10 * acc + DigitVal(s[1]))

Atoi(s) ==
  LET signed == s # <<>> /\ s[1] \in {"+", "-"}
      digits == IF signed THEN Tail(s) ELSE s
  IN IF digits = <<>> \/ \E i \in 1..Len(digits) : ~IsDigit(digits[i])
       THEN [ok |-> FALSE, val |-> 0]
       ELSE [ok |-> TRUE,
             val |-> IF signed /\ s[1] = "-" THEN 0 - DigitsVal(digits, 0)
                     ELSE DigitsVal(digits, 0)]

aggregatedLogSuffix == <<"f", "u", "l", "l">>
LogToken == <<"l", "o", "g">>

(***************************************************************************)
(* Files and directories.                                                  *)
(***************************************************************************)
\* name of the k-th fragment of a group: <base>.<k>.log
FragmentName(base, k) == Join(<<base, FormatInt(k), LogToken>>, ".")

\* the bytes of a fragment: one or two copies of a byte that identifies it
FragmentData(base, k) ==
  LET byte == 16 * (CharRank(base[1]) - CharRank("a") + 1) + k
  IN IF k % 2 = 0 THEN <<byte, byte>> ELSE <<byte>>

GroupNames(base, n) == {FragmentName(base, k) : k \in 1..n}

\* a directory holding n fragments of group a and m fragments of group b
Directory(n, m) ==
  [name \in GroupNames(<<"a">>, n) \cup GroupNames(<<"b">>, m) |->
     LET parts == Split(name, ".")
     IN FragmentData(parts[1], Atoi(parts[2]).val)]

\* the names of a directory in the order filepath.Walk visits them
RECURSIVE SortNames(_)
SortNames(names) ==
  IF names = {} THEN <<>>
  ELSE LET first == CHOOSE x \in names : \A y \in names \ {x} : LexLess(x, y)
       IN <<first>> \o SortNames(names \ {first})

VARIABLES
  options,                \* *Options of MainRoutine: NIL or the record
  env,                    \* the file system's conditions, fixed during a run
  disk,                   \* regular files of the input directory: name -> bytes
  pc,                     \* position of MainRoutine
  rc,                     \* result of MainRoutine
  allFiles,               \* FilesList returned by ScanFolderForFiles
  pending,                \* groups the range loop has not visited yet
  cur,                    \* locals of the running MergeLogList
  f,                      \* output file handle of the running MergeLogChunk
  chunk,                  \* list argument of the running MergeLogChunk
  currentWriteFileIndex,  \* shared counter of MergeLogChunk
  gor,                    \* position of each goroutine of MergeLogChunk
  dataBuf,                \* data loaded by each goroutine
  wg,                     \* sync.WaitGroup counter
  del,                    \* goroutines of DeleteLogList
  hist                    \* record of what the run did (observation only)

vars == <<options, env, disk, pc, rc, allFiles, pending, cur, f, chunk,
          currentWriteFileIndex, gor, dataBuf, wg, del, hist>>

(***************************************************************************)
(* ScanFolderForFiles.                                                     *)
(***************************************************************************)
\* variant: previous output files are not set apart
QualifiesAnyLog(name) == Contains(name, <<".">> \o LogToken)

\* the file qualifies as a fragment: contains ".log" and not ".full"
Qualifies(name) ==
  /\ Contains(name, <<".">> \o LogToken)
  /\ ~Contains(name, <<".">> \o aggregatedLogSuffix)

\* variant: the first token counts as well
RECURSIVE OrderIndexAnyToken(_, _)
OrderIndexAnyToken(parts, i) ==
  IF i <= 0 THEN 0
  ELSE IF Atoi(parts[i]).ok THEN Atoi(parts[i]).val
  ELSE OrderIndexAnyToken(parts, i - 1)

\* the last token after the first that parses as a number, else 0
RECURSIVE OrderIndex(_, _)
OrderIndex(parts, i) ==
  IF i <= 1 THEN 0
  ELSE IF Atoi(parts[i]).ok THEN Atoi(parts[i]).val
  ELSE OrderIndex(parts, i - 1)

\* the walk callback on a regular file
AddFile(filesMap, name) ==
  IF ~Qualifies(name) THEN filesMap
  ELSE LET parts == Split(name, ".")
           def   == [index |-> OrderIndex(parts, Len(parts)), name |-> name]
           old   == IF parts[1] \in DOMAIN filesMap THEN filesMap[parts[1]] ELSE <<>>
       IN [b \in DOMAIN filesMap \cup {parts[1]} |->
             IF b = parts[1] THEN Append(old, def) ELSE filesMap[b]]

\* variant: an error at the root itself is not reported
WalkErrorBelowRoot(fault, k) == k \in fault /\ k > 0

\* the visit of entry k reports an error (k = 0: the root itself)
WalkError(fault, k) == k \in fault

\* filepath.Walk over the entries from position k on; the callback returns the
\* error of a visit, which ends the walk
RECURSIVE WalkFrom(_, _, _, _, _)
WalkFrom(entries, subdirs, fault, k, filesMap) ==
  IF k > Len(entries) THEN [files |-> filesMap, err |-> FALSE]
  ELSE IF WalkError(fault, k) THEN [files |-> filesMap, err |-> TRUE]
  ELSE IF entries[k] \in subdirs
         THEN WalkFrom(entries, subdirs, fault, k + 1, filesMap)
  ELSE WalkFrom(entries, subdirs, fault, k + 1, AddFile(filesMap, entries[k]))

EmptyFilesList == [b \in {} |-> <<>>]

ScanFolderForFiles(world, files) ==
  LET entries == SortNames(DOMAIN files \cup world.subdirs)
  IN IF WalkError(world.walkFault, 0)
       THEN [files |-> EmptyFilesList, err |-> TRUE]
       ELSE WalkFrom(entries, world.subdirs, world.walkFault, 1, EmptyFilesList)

(***************************************************************************)
(* MergeLogList: ordering and chunk plan.                                  *)
(***************************************************************************)
\* variant: the Reverse option is not looked at
LessIgnoringReverse(reverse, x, y) == x.index > y.index

\* the less function handed to sort.Slice
Less(reverse, x, y) ==
  IF reverse THEN x.index <= y.index ELSE x.index > y.index

Swap(s, i, j) == [s EXCEPT ![i] = s[j], ![j] = s[i]]

\* sort.Slice on at most 12 elements: insertion sort
RECURSIVE Bubble(_, _, _)
Bubble(s, j, reverse) ==
  IF j > 1 /\ Less(reverse, s[j], s[j - 1])
    THEN Bubble(Swap(s, j, j - 1), j - 1, reverse)
    ELSE s

RECURSIVE SortFrom(_, _, _)
SortFrom(s, i, reverse) ==
  IF i > Len(s) THEN s ELSE SortFrom(Bubble(s, i, reverse), i + 1, reverse)

SortSlice(list, reverse) == SortFrom(list, 2, reverse)

\* variant: chunks of a single fragment are accepted
CannotSubdivideBelowOne(perChunk) == perChunk < 1

\* the group cannot be subdivided
CannotSubdivide(perChunk) == perChunk < 2

\* variant: no chunk is added for the remainder
ChunkPlanNoExtra(maxChunks, n) ==
  IF maxChunks <= 1
    THEN [abort |-> FALSE, perChunk |-> n, maxChunks |-> 1]
    ELSE [abort |-> CannotSubdivide(n \div maxChunks), perChunk |-> n \div maxChunks,
          maxChunks |-> maxChunks]

\* the chunk computation at the head of MergeLogList: the files per chunk,
\* the value left in config.MaxChunks and whether the group is given up
ChunkPlan(maxChunks, n) ==
  IF maxChunks <= 1
    THEN [abort |-> FALSE, perChunk |-> n, maxChunks |-> 1]
  ELSE IF CannotSubdivide(n \div maxChunks)
    THEN [abort |-> TRUE, perChunk |-> n \div maxChunks, maxChunks |-> maxChunks]
  ELSE [abort |-> FALSE, perChunk |-> n \div maxChunks,
        maxChunks |-> IF n % maxChunks > 0 THEN maxChunks + 1 ELSE maxChunks]

\* name of the output file of chunk chunkIdx
OutputName(basename, maxChunks, chunkIdx) ==
  IF maxChunks > 1
    THEN Join(<<basename, aggregatedLogSuffix, FormatInt(chunkIdx + 1), LogToken>>, ".")
    ELSE Join(<<basename, aggregatedLogSuffix, LogToken>>, ".")

\* variant: a chunk starts one fragment early for every chunk before it
CurrPosOverlapping(chunkIdx, perChunk) == chunkIdx * (perChunk - 1)

CurrPos(chunkIdx, perChunk) == chunkIdx * perChunk

NextPos(chunkIdx, perChunk, n) ==
  IF (chunkIdx + 1) * perChunk >= n THEN n ELSE (chunkIdx + 1) * perChunk

\* list[currPos:nextPos]
Slice(list, currPos, nextPos) == SubSeq(list, currPos + 1, nextPos)

(***************************************************************************)
(* Filters: regexp.MustCompile and FindAllSubmatch for expressions made of *)
(* the literals x and y and of capture groups.                             *)
(***************************************************************************)
\* the byte of a character of a filter expression
ByteOf(c) == IF c = "x" THEN 120 ELSE 121

NoRegexp == [ok |-> FALSE, lit |-> <<>>, caps |-> <<>>]

\* the parser of the expression from character i on: lit is the literal read
\* so far, caps the capture groups in the order of their opening parenthesis
\* (offsets into lit), stack the groups that are still open
RECURSIVE ParseFrom(_, _, _, _, _)
ParseFrom(expr, i, lit, caps, stack) ==
  IF i > Len(expr)
    THEN IF stack = <<>> THEN [ok |-> TRUE, lit |-> lit, caps |-> caps]
                         ELSE NoRegexp
  ELSE IF expr[i] = "("
    THEN ParseFrom(expr, i + 1, lit,
                   Append(caps, [from |-> Len(lit), to |-> Len(lit)]),
                   <<Len(caps) + 1>> \o stack)
  ELSE IF expr[i] = ")"
    THEN IF stack = <<>> THEN NoRegexp
         ELSE ParseFrom(expr, i + 1, lit,
                        [caps EXCEPT ![stack[1]].to = Len(lit)], Tail(stack))
  ELSE ParseFrom(expr, i + 1, Append(lit, ByteOf(expr[i])), caps, stack)

\* regexp.Compile
Compile(expr) == ParseFrom(expr, 1, <<>>, <<>>, <<>>)

\* regexp.MustCompile panics on one of the expressions
CompilePanics(filters) == \E i \in 1..Len(filters) : ~Compile(filters[i]).ok

\* the loop that appends the compiled filters to options.compiledFilters
CompileFilters(config) ==
  [config EXCEPT !.compiledFilters =
     @ \o [i \in 1..Len(config.Filters) |-> Compile(config.Filters[i])]]

\* the leftmost match at or after pos (0-based), or -1
RECURSIVE MatchAt(_, _, _)
MatchAt(re, data, pos) ==
  IF pos > Len(data) THEN 0 - 1
  ELSE IF HasPrefix(SubSeq(data, pos + 1, Len(data)), re.lit) THEN pos
  ELSE MatchAt(re, data, pos + 1)

\* the match that starts at offset q and its submatches
Submatches(re, data, q) ==
  <<re.lit>> \o [k \in 1..Len(re.caps) |->
                   SubSeq(data, q + re.caps[k].from + 1, q + re.caps[k].to)]

\* Regexp.FindAllSubmatch(data, -1): successive non-overlapping matches; an
\* empty match right after the previous match is not delivered
RECURSIVE AllMatches(_, _, _, _)
AllMatches(re, data, pos, prevMatchEnd) ==
  LET q == MatchAt(re, data, pos)
  IN IF pos > Len(data) \/ q < 0 THEN <<>>
     ELSE LET end    == q + Len(re.lit)
              accept == ~(end = q /\ q = prevMatchEnd)
              next   == IF end = q THEN q + 1 ELSE end
              rest   == AllMatches(re, data, next, end)
          IN IF accept THEN <<Submatches(re, data, q)>> \o rest ELSE rest

FindAllSubmatch(re, data) == AllMatches(re, data, 0, 0 - 1)

(***************************************************************************)
(* LoadDataToWrite.                                                        *)
(***************************************************************************)
\* len of the slice handed to bytes.NewBuffer, which becomes its contents
scratchLen == 4096

ReadFile(world, files, name) ==
  IF name \in DOMAIN files /\ name \notin world.unreadable
    THEN [err |-> FALSE, data |-> files[name]]
    ELSE [err |-> TRUE, data |-> <<>>]

\* bufio.ScanLines: the lines of the data without their end-of-line marker;
\* a last line without newline is a line, an empty rest is not
DropCR(line) ==
  IF line # <<>> /\ line[Len(line)] = 13 THEN SubSeq(line, 1, Len(line) - 1) ELSE line

RECURSIVE ScanLinesFrom(_, _)
ScanLinesFrom(data, line) ==
  IF data = <<>> THEN IF line = <<>> THEN <<>> ELSE <<DropCR(line)>>
  ELSE IF data[1] = 10 THEN <<DropCR(line)>> \o ScanLinesFrom(Tail(data), <<>>)
  ELSE ScanLinesFrom(Tail(data), Append(line, data[1]))

ScanLines(data) == ScanLinesFrom(data, <<>>)

\* what one match writes: the whole match when the filter has no capture,
\* else the captures with a space between them
RECURSIVE WriteCaptures(_, _)
WriteCaptures(match, k) ==
  IF k >= Len(match) THEN match[Len(match)]
  ELSE match[k] \o <<32>> \o WriteCaptures(match, k + 1)

WriteMatch(match) == IF Len(match) = 1 THEN match[1] ELSE WriteCaptures(match, 2)

RECURSIVE WriteMatches(_)
WriteMatches(matches) ==
  IF matches = <<>> THEN <<>>
  ELSE WriteMatch(matches[1]) \o WriteMatches(Tail(matches))

\* the loop over the filters for one line
RECURSIVE FilterLine(_, _)
FilterLine(filters, line) ==
  IF filters = <<>> THEN <<>>
  ELSE WriteMatches(FindAllSubmatch(filters[1], line))
         \o FilterLine(Tail(filters), line)

\* what one line of the scanner adds to the buffer
LineOutput(filters, line) == FilterLine(filters, line) \o <<10>>

RECURSIVE FilterLines(_, _)
FilterLines(filters, lines) ==
  IF lines = <<>> THEN <<>>
  ELSE LineOutput(filters, lines[1]) \o FilterLines(filters, Tail(lines))

\* variant: every load goes line by line
UseFastPathNever(compiled) == FALSE

\* no filter: the whole file is loaded as it is
UseFastPath(compiled) == Len(compiled) < 1

LoadDataToWrite(config, world, files, name) ==
  LET r == ReadFile(world, files, name)
  IN IF UseFastPath(config.compiledFilters) \/ r.err THEN r
     ELSE [err |-> FALSE,
           data |-> [i \in 1..scratchLen |-> 0]
                      \o FilterLines(config.compiledFilters, ScanLines(r.data))]

\* the sequential MergeLogChunk of the first revision: load and write in order,
\* give up at the first fragment that cannot be read
RECURSIVE SequentialMerge(_, _, _)
SequentialMerge(world, files, list) ==
  IF list = <<>> THEN <<>>
  ELSE LET r == ReadFile(world, files, list[1].name)
       IN IF r.err THEN <<>>
          ELSE r.data \o SequentialMerge(world, files, Tail(list))

(***************************************************************************)
(* Initial states: the options and the directory of a run.                 *)
(***************************************************************************)
NoFaults == [unreadable |-> {}, walkFault |-> {}, createFail |-> {}, subdirs |-> {}]

\* one condition of the file system that makes an operation fail, or none
Faults(files) ==
  {NoFaults}
    \cup {[NoFaults EXCEPT !.unreadable = {name}] : name \in DOMAIN files}
    \cup {[NoFaults EXCEPT !.walkFault = {k}] : k \in 0..Cardinality(DOMAIN files)}
    \cup {[NoFaults EXCEPT !.createFail = {OutputName(<<"a">>, c, 0)}] : c \in 1..2}
    \cup {[NoFaults EXCEPT !.subdirs = {FragmentName(<<"a">>, 0)}]}

NoHistory ==
  [ops |-> {}, written |-> {}, failed |-> {}, closed |-> {},
   outOfOrder |-> FALSE, plan |-> [b \in {} |-> <<>>]]

InitRun(config, world, files) ==
  /\ options = config
  /\ env = [world EXCEPT !.initial = files]
  /\ disk = files
  /\ pc = "start"
  /\ rc = 0 - 1
  /\ allFiles = EmptyFilesList
  /\ pending = {}
  /\ cur = [base |-> <<>>, list |-> <<>>, perChunk |-> 0, chunkIdx |-> 0]
  /\ f = [name |-> NoFile, open |-> FALSE, synced |-> FALSE]
  /\ chunk = <<>>
  /\ currentWriteFileIndex = 0
  /\ gor = <<>>
  /\ dataBuf = <<>>
  /\ wg = 0
  /\ del = {}
  /\ hist = NoHistory

World(faults, maxChunks) ==
  [unreadable |-> faults.unreadable, walkFault |-> faults.walkFault,
   createFail |-> faults.createFail, subdirs |-> faults.subdirs,
   requested |-> maxChunks, initial |-> <<>>]

\* the options as the command line parser leaves them
Config(reverse, delete, maxChunks, filters) ==
  [Reverse |-> reverse, Delete |-> delete, MaxChunks |-> maxChunks,
   Filters |-> filters, compiledFilters |-> <<>>]

\* MainRoutine(nil)
InitNil == InitRun(NIL, World(NoFaults, 0), Directory(2, 1))

\* filter sets with an expression that does not compile
InvalidFilters ==
  {<< <<"(">> >>, << <<"x">>, <<"x", ")">> >>, << <<"(", "x", ")", "(">> >>}

\* runs with a filter that does not compile
InitInvalid ==
  \E filters \in InvalidFilters, delete \in BOOLEAN, maxChunks \in 0..1 :
    InitRun(Config(FALSE, delete, maxChunks, filters), World(NoFaults, maxChunks),
            Directory(2, 1))

\* directories of two groups of at most maxA and maxB fragments, every option,
\* at most one fault
InitGroups(maxA, maxB) ==
  \E n \in 0..maxA, m \in 0..maxB,
     reverse \in BOOLEAN, delete \in BOOLEAN, maxChunks \in 0..(MaxPlanChunks \div 2) :
    \E faults \in Faults(Directory(n, m)) :
      InitRun(Config(reverse, delete, maxChunks, <<>>),
              World(faults, maxChunks), Directory(n, m))

InitFaults == InitGroups(MaxFragments, MaxFragments - 1)

\* one large group split into chunks, no fault
InitPlan ==
  \E n \in (MaxFragments + 1)..MaxPlanFragments, maxChunks \in 2..MaxPlanChunks,
     delete \in BOOLEAN :
    /\ n \div maxChunks >= 2
    /\ InitRun(Config(FALSE, delete, maxChunks, <<>>),
               World(NoFaults, maxChunks), Directory(n, 0))

Init == InitNil \/ InitInvalid \/ InitFaults \/ InitPlan

\* the fragment contents of the filter scenarios: x, y and newline
Texts == UNION {[1..n -> {120, 121, 10}] : n \in 0..MaxTextLen}

\* the filter sets of the filter scenarios: none, x, y, (x)(y), (x)y, the
\* two filters x and (y), and the empty expression
FilterSets ==
  {<<>>,
   << <<"x">> >>,
   << <<"y">> >>,
   << <<"(", "x", ")", "(", "y", ")">> >>,
   << <<"(", "x", ")", "y">> >>,
   << <<"x">>, <<"(", "y", ")">> >>,
   << <<>> >>}

\* one fragment of every content, every filter set
InitFilters ==
  \E text \in Texts, filters \in FilterSets, delete \in BOOLEAN :
    InitRun(Config(FALSE, delete, 0, filters), World(NoFaults, 0),
            [name \in {FragmentName(<<"a">>, 1)} |-> text])

\* the tokens of the file names of the naming scenarios
Tokens ==
  {<<"a">>, LogToken, aggregatedLogSuffix, <<"7">>, <<"-", "2">>, <<"+">>, <<>>}

\* the names made of at most MaxTokens tokens
TokenNames ==
  {Join(tokens, ".") : tokens \in UNION {[1..n -> Tokens] : n \in 1..MaxTokens}}
    \ {<<>>}

WithFile(files, name, data) ==
  [x \in DOMAIN files \cup {name} |-> IF x = name THEN data ELSE files[x]]

\* a file of any of the names: alone and merged into one file, or next to
\* three fragments of group a and split into two chunks
InitNames ==
  \E name \in TokenNames, shape \in {<<0, 0>>, <<3, 2>>}, delete \in BOOLEAN :
    InitRun(Config(FALSE, delete, shape[2], <<>>), World(NoFaults, shape[2]),
            WithFile(Directory(shape[1], 0), name, <<255>>))

(***************************************************************************)
(* MainRoutine.                                                            *)
(***************************************************************************)
Note(op) == [hist EXCEPT !.ops = @ \cup {op}]

MergeVars == <<cur, f, chunk, currentWriteFileIndex, gor, dataBuf, wg>>

\* variant: missing options are not a failure
NilOptionsAccepted(config) == 0

\* result of MainRoutine when no options are passed
NilOptionsResult(config) == IF config = NIL THEN 1 ELSE 0

\* variant: the error of the scan does not change the result
ScanResultIgnored(err) == 0

\* result of MainRoutine after the scan
ScanResult(err) == IF err THEN 1 ELSE 0

MainNil ==
  /\ pc = "start"
  /\ options = NIL
  /\ rc' = NilOptionsResult(options)
  /\ pc' = "done"
  /\ UNCHANGED <<options, env, disk, allFiles, pending, MergeVars, del, hist>>

\* regexp.MustCompile panics in MainRoutine: the panic unwinds to main
MainPanic ==
  /\ pc = "start"
  /\ options # NIL
  /\ CompilePanics(options.Filters)
  /\ pc' = "panic"
  /\ UNCHANGED <<options, env, disk, rc, allFiles, pending, MergeVars, del, hist>>

\* the deferred function of main recovers the panic and main returns
MainRecover ==
  /\ pc = "panic"
  /\ pc' = "recovered"
  /\ UNCHANGED <<options, env, disk, rc, allFiles, pending, MergeVars, del, hist>>

\* the exit status of the process: os.Exit(MainRoutine(&options)), or the
\* return of main after a recovered panic; -1 while it runs
ExitStatus ==
  IF pc = "done" THEN rc ELSE IF pc = "recovered" THEN 0 ELSE 0 - 1

\* MainRoutine from the compilation of the filters to the result of the scan
MainScan ==
  /\ pc = "start"
  /\ options # NIL
  /\ ~CompilePanics(options.Filters)
  /\ options' = CompileFilters(options)
  /\ LET scan == ScanFolderForFiles(env, disk)
     IN /\ allFiles' = scan.files
        /\ hist' = Note("walk")
        /\ IF scan.err
             THEN /\ rc' = ScanResult(scan.err)
                  /\ pc' = "done"
                  /\ pending' = pending
             ELSE /\ rc' = rc
                  /\ pc' = "groups"
                  /\ pending' = DOMAIN scan.files
  /\ UNCHANGED <<env, disk, MergeVars, del>>

MainReturn ==
  /\ pc = "groups"
  /\ pending = {}
  /\ rc' = 0
  /\ pc' = "done"
  /\ UNCHANGED <<options, env, disk, allFiles, pending, MergeVars, del, hist>>

\* MainRoutine after MergeLogList returned: DeleteLogList starts one goroutine
\* per fragment of the group when Delete is set
DeleteRequested(config) == config.Delete

AfterMergeLogList(list) ==
  IF DeleteRequested(options)
    THEN /\ pc' = "delete"
         /\ del' = {list[i].name : i \in 1..Len(list)}
    ELSE /\ pc' = "groups"
         /\ del' = del

\* MergeLogList up to the chunk loop
MergeLogList(fBase) ==
  /\ pc = "groups"
  /\ fBase \in pending
  /\ pending' = pending \ {fBase}
  /\ LET list == SortSlice(allFiles[fBase], options.Reverse)
         plan == ChunkPlan(options.MaxChunks, Len(list))
     IN /\ allFiles' = [allFiles EXCEPT ![fBase] = list]
        /\ options' = [options EXCEPT !.MaxChunks = plan.maxChunks]
        /\ cur' = [base |-> fBase, list |-> list, perChunk |-> plan.perChunk,
                   chunkIdx |-> 0]
        /\ hist' = [hist EXCEPT !.plan =
                      [b \in DOMAIN @ \cup {fBase} |->
                         IF b = fBase
                           THEN [entryChunks |-> options.MaxChunks, list |-> list,
                                 abort |-> plan.abort, createErr |-> FALSE,
                                 files |-> <<>>]
                           ELSE @[b]]]
        /\ IF plan.abort
             THEN AfterMergeLogList(list)
             ELSE pc' = "chunk" /\ del' = del
  /\ UNCHANGED <<env, disk, rc, f, chunk, currentWriteFileIndex, gor, dataBuf, wg>>

\* os.Create
CreateFails(world, name) == name \in world.createFail

\* one turn of the chunk loop up to the start of the goroutines of MergeLogChunk
StartChunk ==
  /\ pc = "chunk"
  /\ LET name    == OutputName(cur.base, options.MaxChunks, cur.chunkIdx)
         currPos == CurrPos(cur.chunkIdx, cur.perChunk)
         nextPos == NextPos(cur.chunkIdx, cur.perChunk, Len(cur.list))
         list    == Slice(cur.list, currPos, nextPos)
     IN IF CreateFails(env, name)
          THEN /\ AfterMergeLogList(cur.list)
               /\ hist' = [Note("create") EXCEPT !.plan[cur.base].createErr = TRUE]
               /\ UNCHANGED <<disk, f, chunk, currentWriteFileIndex, gor, dataBuf, wg>>
          ELSE /\ disk' = [x \in DOMAIN disk \cup {name} |->
                             IF x = name THEN <<>> ELSE disk[x]]
               /\ f' = [name |-> name, open |-> TRUE, synced |-> FALSE]
               /\ chunk' = list
               /\ currentWriteFileIndex' = 0
               /\ gor' = [i \in 1..Len(list) |-> "load"]
               /\ dataBuf' = [i \in 1..Len(list) |-> <<>>]
               /\ wg' = Len(list)
               /\ pc' = "wait"
               /\ del' = del
               /\ hist' = [Note("create") EXCEPT
                             !.outOfOrder = FALSE,
                             !.plan[cur.base].files =
                               Append(@, [name |-> name, currPos |-> currPos,
                                          nextPos |-> nextPos])]
  /\ UNCHANGED <<options, env, rc, allFiles, pending, cur>>

(***************************************************************************)
(* MergeLogChunk: one goroutine per fragment; goroutine i of the model has *)
(* listIndex i - 1.                                                        *)
(***************************************************************************)
MainVars == <<options, env, rc, allFiles, pending, cur, chunk, del>>

\* LoadDataToWrite of goroutine i; on an error the goroutine returns (wg.Done)
Load(i) ==
  /\ pc = "wait"
  /\ i \in DOMAIN gor
  /\ gor[i] = "load"
  /\ LET r == LoadDataToWrite(options, env, disk, chunk[i].name)
     IN IF r.err
          THEN /\ gor' = [gor EXCEPT ![i] = "failed"]
               /\ wg' = wg - 1
               /\ dataBuf' = dataBuf
               /\ hist' = [Note("read") EXCEPT !.failed = @ \cup {chunk[i].name}]
          ELSE /\ gor' = [gor EXCEPT ![i] = "spin"]
               /\ wg' = wg
               /\ dataBuf' = [dataBuf EXCEPT ![i] = r.data]
               /\ hist' = [Note("read") EXCEPT !.outOfOrder =
                             @ \/ \E j \in 1..(i - 1) : gor[j] = "load"]
  /\ UNCHANGED <<MainVars, disk, pc, f, currentWriteFileIndex>>

\* variant: a goroutine writes as soon as its data is loaded
MyTurnAlways(counter, listIndex) == TRUE

\* the test of the spin loop: atomic.LoadInt32(&currentWriteFileIndex) = listIndex
MyTurn(counter, listIndex) == counter = listIndex

\* goroutine i leaves the spin loop
AwaitTurn(i) ==
  /\ pc = "wait"
  /\ i \in DOMAIN gor
  /\ gor[i] = "spin"
  /\ MyTurn(currentWriteFileIndex, i - 1)
  /\ gor' = [gor EXCEPT ![i] = "write"]
  /\ UNCHANGED <<MainVars, disk, pc, f, currentWriteFileIndex, dataBuf, wg, hist>>

\* f.Write(data.Bytes())
Write(i) ==
  /\ pc = "wait"
  /\ i \in DOMAIN gor
  /\ gor[i] = "write"
  /\ disk' = IF f.open /\ f.name \in DOMAIN disk
               THEN [disk EXCEPT ![f.name] = @ \o dataBuf[i]]
               ELSE disk
  /\ gor' = [gor EXCEPT ![i] = "store"]
  /\ hist' = [Note("write") EXCEPT !.written = @ \cup {chunk[i].name}]
  /\ UNCHANGED <<MainVars, pc, f, currentWriteFileIndex, dataBuf, wg>>

\* variant: the counter is advanced by two
NextIndexSkips(listIndex) == listIndex + 2

\* the value stored in the counter by the goroutine of listIndex (int32)
NextIndex(listIndex) ==
  IF listIndex = 2147483647 THEN (0 - 2147483647) - 1 ELSE listIndex + 1

\* atomic.StoreInt32(&currentWriteFileIndex, listIndex+1), then wg.Done
Store(i) ==
  /\ pc = "wait"
  /\ i \in DOMAIN gor
  /\ gor[i] = "store"
  /\ currentWriteFileIndex' = NextIndex(i - 1)
  /\ gor' = [gor EXCEPT ![i] = "done"]
  /\ wg' = wg - 1
  /\ UNCHANGED <<MainVars, disk, pc, f, dataBuf, hist>>

\* variant: MergeLogChunk does not wait for its goroutines
WaitReturnsAtOnce(counter) == TRUE

\* wg.Wait() returns when the counter of the WaitGroup is zero
WaitReturns(counter) == counter = 0

\* variant: the file is left open
LeaveOpen(file) == file

\* the deferred f.Sync() and f.Close()
SyncAndClose(file) == [file EXCEPT !.open = FALSE, !.synced = TRUE]

\* wg.Wait() returns, the deferred function syncs and closes the file, and
\* MergeLogList goes on with the next chunk or returns to MainRoutine
ChunkReturn ==
  /\ pc = "wait"
  /\ WaitReturns(wg)
  /\ f' = SyncAndClose(f)
  /\ hist' = [hist EXCEPT !.closed = @ \cup {f.name}]
  /\ cur' = [cur EXCEPT !.chunkIdx = @ + 1]
  /\ IF cur.chunkIdx + 1 < options.MaxChunks
       THEN pc' = "chunk" /\ del' = del
       ELSE AfterMergeLogList(cur.list)
  /\ UNCHANGED <<options, env, disk, rc, allFiles, pending, chunk,
                 currentWriteFileIndex, gor, dataBuf, wg>>

(***************************************************************************)
(* DeleteLogList: one goroutine per fragment.                              *)
(***************************************************************************)
\* os.Remove of one fragment; an error is only logged
Remove(name) ==
  /\ pc = "delete"
  /\ name \in del
  /\ del' = del \ {name}
  /\ disk' = [x \in DOMAIN disk \ {name} |-> disk[x]]
  /\ hist' = Note("remove")
  /\ UNCHANGED <<options, env, pc, rc, allFiles, pending, MergeVars>>

\* wg.Wait() of DeleteLogList returns
DeleteReturn ==
  /\ pc = "delete"
  /\ del = {}
  /\ pc' = "groups"
  /\ UNCHANGED <<options, env, disk, rc, allFiles, pending, MergeVars, del, hist>>

\* the names a run can delete
Names == DOMAIN env.initial

Next ==
  \/ MainNil
  \/ MainPanic
  \/ MainRecover
  \/ MainScan
  \/ MainReturn
  \/ \E fBase \in pending : MergeLogList(fBase)
  \/ StartChunk
  \/ \E i \in DOMAIN gor : Load(i)
  \/ \E i \in DOMAIN gor : AwaitTurn(i)
  \/ \E i \in DOMAIN gor : Write(i)
  \/ \E i \in DOMAIN gor : Store(i)
  \/ ChunkReturn
  \/ \E name \in Names : Remove(name)
  \/ DeleteReturn

Spec == Init /\ [][Next]_vars

\* the runs on the smaller directories
InitSmall == InitNil \/ InitInvalid \/ InitGroups(MaxFragments - 2, 1)

\* the scheduler keeps running the goroutines of MergeLogChunk, and
\* MergeLogChunk itself once wg.Wait() can return
GoroutinesRun ==
  /\ WF_vars(\E i \in DOMAIN gor : Load(i))
  /\ WF_vars(\E i \in DOMAIN gor : AwaitTurn(i))
  /\ WF_vars(\E i \in DOMAIN gor : Write(i))
  /\ WF_vars(\E i \in DOMAIN gor : Store(i))
  /\ WF_vars(ChunkReturn)

FairSpec == InitSmall /\ [][Next]_vars /\ GoroutinesRun

\* the runs with filters
FilterSpec == (InitNil \/ InitInvalid \/ InitFilters) /\ [][Next]_vars

\* the runs on the file names
NameSpec == (InitNil \/ InitInvalid \/ InitNames) /\ [][Next]_vars

(***************************************************************************)
(* Vocabulary of the properties.                                           *)
(***************************************************************************)
\* the bytes of the fragments of a list, in list order, as they were at the
\* start of the run
RECURSIVE Bytes(_)
Bytes(list) ==
  IF list = <<>> THEN <<>> ELSE env.initial[list[1].name] \o Bytes(Tail(list))

\* the fragments of a group in the directory at the start of the run
GroupOf(base) == {x \in DOMAIN env.initial : Split(x, ".")[1] = base}

ListNames(list) == {list[i].name : i \in 1..Len(list)}

\* the files of the group's base name that the run added to the directory
OutputsOf(base) ==
  {x \in DOMAIN disk : Split(x, ".")[1] = base /\ x \notin DOMAIN env.initial}

\* MergeLogList has returned for the group
Merged(base) ==
  /\ base \in DOMAIN hist.plan
  /\ ~(cur.base = base /\ pc \in {"chunk", "wait"})

\* every fragment of the list can be read
Readable(list) == ListNames(list) \cap env.unreadable = {}

AllDone == pc = "wait" /\ \A i \in DOMAIN gor : gor[i] = "done"

RECURSIVE ChunkBytes(_)
ChunkBytes(files) ==
  IF files = <<>> THEN <<>> ELSE disk[files[1].name] \o ChunkBytes(Tail(files))

(***************************************************************************)
(* C1..C21                                                                 *)
(***************************************************************************)
\* C1: when every fragment of the chunk was loaded and written, whatever the
\* order in which the loads completed, the output file holds the fragments'
\* bytes in list order: the result of the sequential load-and-write loop.
C1_OrderedOutput ==
  AllDone => /\ disk[f.name] = SequentialMerge(env, disk, chunk)
             /\ disk[f.name] = Bytes(chunk)

\* a chunk of three or more fragments, completely written, in which a
\* fragment was loaded before one that precedes it in the list
C1_Witness ==
  /\ AllDone
  /\ Len(chunk) >= 3
  /\ hist.outOfOrder
  /\ disk[f.name] = Bytes(chunk)

\* C2: a goroutine that has finished, with or without a load error, has
\* advanced the counter past its own position, so that no loaded fragment
\* waits behind a fragment whose load failed.
C2_CounterAdvancesPerFragment ==
  \A i \in DOMAIN gor, j \in DOMAIN gor :
    (pc = "wait" /\ i < j /\ gor[i] \in {"done", "failed"} /\ gor[j] = "spin")
      => currentWriteFileIndex >= i

\* C3: a started MergeLogChunk returns, its file synced and closed.
C3_ChunkReturns ==
  (pc = "wait") ~> (pc # "wait" /\ ~f.open /\ f.synced)

\* the ranges of a chunk plan follow each other from 0 to n
RECURSIVE Contiguous(_, _, _)
Contiguous(files, from, n) ==
  IF files = <<>> THEN from = n
  ELSE /\ files[1].currPos = from
       /\ Contiguous(Tail(files), files[1].nextPos, n)

\* C4: a group split as requested (maxChunks > 1, at least two fragments per
\* chunk) has every fragment in exactly one chunk, and the chunk files in
\* index order hold what the single output file would hold.
C4_ChunksCoverList ==
  \A base \in DOMAIN hist.plan :
    LET p == hist.plan[base]
    IN (/\ Merged(base)
        /\ p.entryChunks = env.requested
        /\ env.requested > 1
        /\ Len(p.list) \div env.requested >= 2
        /\ ~p.createErr)
       => /\ Contiguous(p.files, 0, Len(p.list))
          /\ Readable(p.list) => ChunkBytes(p.files) = Bytes(p.list)

\* the indexes of a list are in the order the options ask for
Ordered(list, reverse) ==
  \A i \in 1..Len(list), j \in 1..Len(list) :
    i < j => IF reverse THEN list[i].index <= list[j].index
                        ELSE list[i].index >= list[j].index

\* C5: with maxChunks <= 1 and every load succeeding, a group gets exactly one
\* output file, <base>.full.log, holding all of its fragments ordered by
\* index, descending, or ascending when Reverse is set.
C5_SingleFile ==
  \A base \in DOMAIN hist.plan :
    LET p    == hist.plan[base]
        name == Join(<<base, aggregatedLogSuffix, LogToken>>, ".")
    IN (/\ Merged(base)
        /\ env.requested <= 1
        /\ Readable(p.list)
        /\ ~p.createErr)
       => /\ OutputsOf(base) = {name}
          /\ ListNames(p.list) = GroupOf(base)
          /\ Len(p.list) = Cardinality(GroupOf(base))
          /\ Ordered(p.list, options.Reverse)
          /\ disk[name] = Bytes(p.list)

\* a group of three fragments merged into one file in ascending order
C5_Witness ==
  \E base \in DOMAIN hist.plan :
    /\ Merged(base)
    /\ env.requested <= 1
    /\ options.Reverse
    /\ Len(hist.plan[base].list) >= 3
    /\ Readable(hist.plan[base].list)
    /\ ~hist.plan[base].createErr
    /\ OutputsOf(base) = {Join(<<base, aggregatedLogSuffix, LogToken>>, ".")}

\* the fragments of the start of the run that are no longer in the directory
Deleted == DOMAIN env.initial \ DOMAIN disk

\* the merge of the group went through: not given up, every output file
\* created, every fragment loaded
MergeSucceeded(base) ==
  /\ Merged(base)
  /\ ~hist.plan[base].abort
  /\ ~hist.plan[base].createErr
  /\ ListNames(hist.plan[base].list) \cap hist.failed = {}

\* C6: a fragment is deleted only after the merge of its group succeeded and
\* its bytes were written to an output file.
C6_DeleteOnlyAfterSuccess ==
  \A name \in Deleted :
    /\ MergeSucceeded(Split(name, ".")[1])
    /\ name \in hist.written

\* the group cannot be split into the chunks asked for
Unsplittable(maxChunks, n) == maxChunks > 1 /\ n \div maxChunks < 2

\* C7: a group that cannot be split into chunks of two or more fragments is
\* given up before any output file is created for it, the other groups are
\* still handed to MergeLogList, and MainRoutine returns 0.
C7_SubdivisionAbort ==
  /\ \A base \in DOMAIN hist.plan :
       LET p == hist.plan[base]
       IN (\/ Unsplittable(p.entryChunks, Len(p.list))
           \/ Unsplittable(env.requested, Len(p.list)))
          => /\ p.abort
             /\ p.files = <<>>
             /\ OutputsOf(base) = {}
  /\ (pc = "done" /\ \E base \in DOMAIN hist.plan : hist.plan[base].abort)
       => /\ rc = 0
          /\ DOMAIN hist.plan = DOMAIN allFiles
          /\ \A base \in DOMAIN hist.plan :
               (~hist.plan[base].abort /\ ~hist.plan[base].createErr)
                 => OutputsOf(base) # {}

\* MainRoutine has returned 0 after giving up one group and merging another
C7_Witness ==
  /\ pc = "done"
  /\ rc = 0
  /\ \E a \in DOMAIN hist.plan, b \in DOMAIN hist.plan :
       /\ hist.plan[a].abort
       /\ Unsplittable(env.requested, Len(hist.plan[a].list))
       /\ ~hist.plan[b].abort
       /\ OutputsOf(a) = {}
       /\ OutputsOf(b) # {}

\* MainRoutine has returned from a run on a directory without any fragment
NoDataRun == pc = "done" /\ options # NIL /\ DOMAIN env.initial = {}

\* C8 as stated: a run on a directory without fragments creates no output
\* file and returns 1.
C8_NoDataFails == NoDataRun => (rc = 1 /\ DOMAIN disk = {})

\* C8, amended: a run on a directory without fragments creates no output
\* file; it returns 1 when the walk fails at the root (the directory is
\* missing) and 0 when the directory is there and empty.
C8_NoDataResult ==
  NoDataRun => /\ DOMAIN disk = {}
               /\ rc = IF 0 \in env.walkFault THEN 1 ELSE 0

\* a run on a missing directory has returned 1
C8_Witness == NoDataRun /\ 0 \in env.walkFault /\ rc = 1 /\ DOMAIN disk = {}

\* C9: MainRoutine(nil) returns 1 at once, without any access to the file
\* system.
C9_NilOptions ==
  options = NIL => /\ pc \in {"start", "done"}
                   /\ pc = "done" => rc = 1
                   /\ hist.ops = {}
                   /\ disk = env.initial

\* MainRoutine(nil) has returned 1 with fragments in the directory
C9_Witness ==
  options = NIL /\ pc = "done" /\ rc = 1 /\ DOMAIN disk # {} /\ hist.ops = {}

\* the walk reports an error: at the root or at an entry that is there
WalkFails ==
  \E k \in env.walkFault : k <= Cardinality(DOMAIN env.initial \cup env.subdirs)

\* C10: when the walk reports an error, ScanFolderForFiles returns it,
\* MainRoutine returns 1 and nothing is merged, created or deleted, whatever
\* was discovered before the error.
C10_WalkErrorIsFatal ==
  (options # NIL /\ WalkFails /\ pc # "start")
    => /\ ScanFolderForFiles(env, env.initial).err
       /\ pc = "done"
       /\ rc = 1
       /\ disk = env.initial
       /\ DOMAIN hist.plan = {}
       /\ hist.ops = {"walk"}

\* MainRoutine has returned 1 after a walk that found fragments before the error
C10_Witness ==
  /\ options # NIL
  /\ WalkFails
  /\ pc = "done"
  /\ rc = 1
  /\ DOMAIN allFiles # {}
  /\ disk = env.initial

\* C11: when a filter expression does not compile the run stops before the
\* directory is scanned and before any fragment is read, written or deleted,
\* and the exit status of the process is 1.
C11_InvalidFilterIsFatal ==
  (options # NIL /\ CompilePanics(options.Filters) /\ pc # "start")
    => /\ pc \in {"panic", "recovered"}
       /\ hist.ops = {}
       /\ disk = env.initial
       /\ pc = "recovered" => ExitStatus = 1

\* goroutine i has loaded its data
Loaded(i) == pc = "wait" /\ gor[i] \in {"spin", "write", "store", "done"}

\* no line of the data has a match of any of the filters
NoLineMatches(filters, data) ==
  \A k \in 1..Len(ScanLines(data)), j \in 1..Len(filters) :
    FindAllSubmatch(filters[j], ScanLines(data)[k]) = <<>>

\* C12: with a non-empty filter set, the data loaded from a fragment whose
\* lines (there is at least one) match none of the filters is empty: no
\* newline for a line without match, nothing that a match did not produce.
C12_NoMatchNoOutput ==
  \A i \in DOMAIN gor :
    (/\ Loaded(i)
     /\ Len(options.compiledFilters) >= 1
     /\ ScanLines(env.initial[chunk[i].name]) # <<>>
     /\ NoLineMatches(options.compiledFilters, env.initial[chunk[i].name]))
      => dataBuf[i] = <<>>

\* C13: with an empty filter set the data loaded from a fragment is the
\* fragment's bytes, whatever they are: also without a last newline, also none.
C13_NoFilterIdentity ==
  \A i \in DOMAIN gor :
    (Loaded(i) /\ Len(options.compiledFilters) < 1)
      => dataBuf[i] = env.initial[chunk[i].name]

\* a fragment whose last line has no newline, loaded without filters
C13_Witness ==
  \E i \in DOMAIN gor :
    /\ Loaded(i)
    /\ Len(options.compiledFilters) < 1
    /\ Len(dataBuf[i]) = MaxTextLen
    /\ dataBuf[i][1] = 10
    /\ dataBuf[i][Len(dataBuf[i])] # 10
    /\ dataBuf[i] = env.initial[chunk[i].name]

\* the file names of a FilesList
ScannedNames(files) == UNION {ListNames(files[b]) : b \in DOMAIN files}

\* the output files the run has created so far
CreatedNames ==
  UNION {{hist.plan[b].files[k].name : k \in 1..Len(hist.plan[b].files)} :
           b \in DOMAIN hist.plan}

\* the scan has returned its FilesList to MainRoutine
Scanned == options # NIL /\ pc \in {"groups", "chunk", "wait", "delete", "done"}

\* C14: every output name MergeLogList can generate for a scanned base name,
\* <base>.full.log or <base>.full.<k>.log, fails the qualification test of
\* the scan; no created output has the name of a scanned fragment; and a scan
\* of the directory as the run leaves it finds the fragments of the first scan
\* that are still there (all of them unless they were deleted) and no output.
C14_OutputsNeverRescanned ==
  Scanned =>
    /\ \A b \in DOMAIN allFiles, maxChunks \in 1..(MaxPlanChunks + 1) :
         \A chunkIdx \in 0..(maxChunks - 1) :
           ~Qualifies(OutputName(b, maxChunks, chunkIdx))
    /\ CreatedNames \cap ScannedNames(allFiles) = {}
    /\ ScannedNames(ScanFolderForFiles(env, disk).files)
         = ScannedNames(allFiles) \cap DOMAIN disk
    /\ ~options.Delete
         => ScannedNames(ScanFolderForFiles(env, disk).files) = ScannedNames(allFiles)

\* a finished run without Delete that wrote two chunk files: a second scan
\* finds the four fragments again
C14_Witness ==
  /\ Scanned
  /\ pc = "done"
  /\ ~options.Delete
  /\ Cardinality(CreatedNames) = 2
  /\ CreatedNames \subseteq DOMAIN disk
  /\ Cardinality(ScannedNames(allFiles)) = 4
  /\ ScannedNames(ScanFolderForFiles(env, disk).files) = ScannedNames(allFiles)

\* the goroutines between the end of their spin loop and their store
Writers == {i \in DOMAIN gor : gor[i] \in {"write", "store"}}

\* C15: at most one goroutine of MergeLogChunk is between its spin loop and
\* its store of the counter; the goroutine of list position i is there only
\* while the counter is i; a fragment is written only after all fragments
\* before it; and the counter only goes from i to i + 1, by the store of the
\* goroutine of position i (a new chunk starts with a new counter at 0).
C15_SingleWriter ==
  /\ [](pc = "wait" =>
          /\ Cardinality(Writers) <= 1
          /\ \A i \in Writers : currentWriteFileIndex = i - 1
          /\ \A i \in DOMAIN gor, j \in DOMAIN gor :
               (i < j /\ gor[j] \in {"write", "store", "done"}) => gor[i] = "done")
  /\ [][currentWriteFileIndex' # currentWriteFileIndex =>
          \/ pc = "chunk" /\ currentWriteFileIndex' = 0
          \/ /\ pc = "wait"
             /\ currentWriteFileIndex' = currentWriteFileIndex + 1
             /\ \E i \in Writers :
                  /\ i - 1 = currentWriteFileIndex
                  /\ gor[i] = "store"
                  /\ gor'[i] = "done"]_vars

\* the second goroutine of a chunk writes while the counter is 1 and a later
\* goroutine, already loaded, waits for its turn
C15_Witness ==
  /\ pc = "wait"
  /\ \E i \in Writers, j \in DOMAIN gor :
       /\ i >= 2
       /\ gor[i] = "write"
       /\ currentWriteFileIndex = i - 1
       /\ j > i
       /\ gor[j] = "spin"

\* the goroutines of MergeLogChunk that have not returned yet
Running == {i \in DOMAIN gor : gor[i] \notin {"done", "failed"}}

\* C16: the output file of MergeLogChunk is synced and closed only after every
\* goroutine has returned, having written or failed: while a goroutine runs,
\* MergeLogChunk waits with the file open, and the WaitGroup counts exactly
\* the goroutines that run.
C16_CloseAfterAll ==
  /\ Running # {} => (pc = "wait" /\ f.open /\ ~f.synced)
  /\ pc = "wait" => (wg = Cardinality(Running) /\ f.open /\ f.name \notin hist.closed)
  /\ f.name \in hist.closed => (Running = {} /\ ~f.open /\ f.synced)

\* MergeLogChunk has returned, its file synced and closed, after a chunk in
\* which one goroutine wrote and another failed to load
C16_Witness ==
  /\ pc # "wait"
  /\ f.name \in hist.closed
  /\ ~f.open
  /\ f.synced
  /\ \E i \in DOMAIN gor, j \in DOMAIN gor : gor[i] = "done" /\ gor[j] = "failed"

Min(a, b) == IF a <= b THEN a ELSE b

\* the files the run added to the directory
AddedFiles == DOMAIN disk \ DOMAIN env.initial

\* the names of the output files created for a group
PlanNames(base) ==
  {hist.plan[base].files[k].name : k \in 1..Len(hist.plan[base].files)}

\* the number of output files of a group of n fragments split into maxChunks
ChunkCount(maxChunks, n) == IF n % maxChunks = 0 THEN maxChunks ELSE maxChunks + 1

\* <base>.full.<k>.log
ChunkFileName(base, k) ==
  Join(<<base, aggregatedLogSuffix, FormatInt(k), LogToken>>, ".")

\* C17: for a group of N fragments and a maxChunks > 1 handed to MergeLogList
\* with N / maxChunks >= 2, once MergeLogList has returned (every file
\* created) there are maxChunks output files when N % maxChunks = 0 and
\* maxChunks + 1 otherwise, named <base>.full.1.log .. <base>.full.<count>.log,
\* and chunk k holds exactly the fragments at the sorted positions
\* [k * (N / maxChunks), min((k + 1) * (N / maxChunks), N)).
C17_ChunkCountAndRanges ==
  \A base \in DOMAIN hist.plan :
    LET p     == hist.plan[base]
        n     == Len(p.list)
        per   == n \div p.entryChunks
        count == ChunkCount(p.entryChunks, n)
    IN (/\ Merged(base)
        /\ p.entryChunks > 1
        /\ per >= 2
        /\ ~p.createErr)
       => /\ Len(p.files) = count
          /\ PlanNames(base) = {ChunkFileName(base, k) : k \in 1..count}
          /\ PlanNames(base) \subseteq AddedFiles
          /\ AddedFiles = CreatedNames
          /\ \A k \in 0..(count - 1) :
               /\ p.files[k + 1].name = ChunkFileName(base, k + 1)
               /\ p.files[k + 1].currPos = k * per
               /\ p.files[k + 1].nextPos = Min((k + 1) * per, n)
               /\ Readable(p.list)
                    => disk[ChunkFileName(base, k + 1)]
                         = Bytes(Slice(p.list, k * per, Min((k + 1) * per, n)))

\* a merged group with a remainder: one file more than asked for, the last
\* one holding fewer fragments than the others
C17_Witness ==
  \E base \in DOMAIN hist.plan :
    LET p == hist.plan[base]
        n == Len(p.list)
    IN /\ Merged(base)
       /\ p.entryChunks > 2
       /\ n % p.entryChunks > 0
       /\ ~p.createErr
       /\ Len(p.files) = p.entryChunks + 1
       /\ p.files[Len(p.files)].nextPos - p.files[Len(p.files)].currPos
            < n \div p.entryChunks
       /\ Cardinality(PlanNames(base) \cap AddedFiles) = p.entryChunks + 1

\* C18: every range MergeLogList hands to MergeLogChunk is non-empty and
\* within the list, 0 <= currPos < nextPos <= N; each range starts where the
\* one before it ends; the running MergeLogChunk has the fragments of the
\* last range; and there are as many ranges as output files created: each
\* range has a file of its own, and the run added no other file.
C18_RangesInBounds ==
  /\ AddedFiles = CreatedNames
  /\ \A base \in DOMAIN hist.plan :
       LET p == hist.plan[base]
           n == Len(p.list)
       IN /\ \A k \in 1..Len(p.files) :
               /\ 0 <= p.files[k].currPos
               /\ p.files[k].currPos < p.files[k].nextPos
               /\ p.files[k].nextPos <= n
               /\ k > 1 => p.files[k].currPos = p.files[k - 1].nextPos
          /\ (pc = "wait" /\ cur.base = base)
               => /\ p.files # <<>>
                  /\ chunk = Slice(p.list, p.files[Len(p.files)].currPos,
                                    p.files[Len(p.files)].nextPos)
          /\ Cardinality(PlanNames(base)) = Len(p.files)
          /\ PlanNames(base) \subseteq AddedFiles

\* a group with three or more ranges, the last one cut at the end of the list
C18_Witness ==
  \E base \in DOMAIN hist.plan :
    LET p == hist.plan[base]
        n == Len(p.list)
    IN /\ Len(p.files) >= 3
       /\ p.files[Len(p.files)].nextPos = n
       /\ p.files[Len(p.files)].nextPos - p.files[Len(p.files)].currPos
            < p.files[1].nextPos
       /\ Cardinality(PlanNames(base) \cap AddedFiles) = Len(p.files)

\* the positions after the first of the tokens that parse as an integer
IntegerTokens(tokens) == {i \in 2..Len(tokens) : Atoi(tokens[i]).ok}

Rightmost(positions) == CHOOSE i \in positions : \A j \in positions : j <= i

C20_OneChunkAtATime ==
  /\ f.open => pc = "wait"
  /\ CreatedNames \ hist.closed = IF f.open THEN {f.name} ELSE {}
  /\ pc # "wait" => Running = {}
  /\ del # {} => (pc = "delete" /\ ~f.open /\ Running = {})
  /\ \A b \in DOMAIN allFiles :
       ListNames(allFiles[b]) \cap (del \cup Deleted) # {} => Merged(b)

\* the chunk of the second group runs, its file open, after the file of the
\* first group was closed and fragments of the first group were deleted
C20_Witness ==
  /\ pc = "wait"
  /\ f.open
  /\ Running # {}
  /\ Cardinality(DOMAIN hist.plan) = 2
  /\ hist.closed # {}
  /\ Deleted # {}
  /\ CreatedNames \ hist.closed = {f.name}

\* C21: in a run over several groups every group is planned from its own
\* fragments and the maxChunks the user asked for, whatever groups were merged
\* before it: MergeLogList is entered with the requested value (0 and 1 both
\* meaning one file), gives the group up exactly when that value cannot
\* subdivide it, and creates the number of files that value asks for.
C21_PlanIndependentOfOrder ==
  \A base \in DOMAIN hist.plan :
    LET p        == hist.plan[base]
        expected == ChunkPlan(env.requested, Len(p.list))
    IN /\ ChunkPlan(p.entryChunks, Len(p.list)) = expected
       /\ p.abort = expected.abort
       /\ (Merged(base) /\ ~p.abort /\ ~p.createErr)
            => Len(p.files) = expected.maxChunks
       /\ (p.entryChunks > 1 \/ env.requested > 1) => p.entryChunks = env.requested

====
